---- MODULE Spec2Model ----
(***************************************************************************)
(* Model of the text-to-image generator: generate_image                    *)
(* (src/generate_image.py) and the web front end's POST handler index      *)
(* (src/web_app.py).  One behaviour is one generate call: Init draws the   *)
(* request and the process environment, the actions are the steps of the   *)
(* call in program order.  Texts (prompts, error messages) are sequences   *)
(* of one-character strings so that the code's substring tests and regex   *)
(* substitutions are computed, not assumed.                                *)
(***************************************************************************)
EXTENDS Integers, Sequences, FiniteSets, TLC

VARIABLES
    entry,            \* who calls: "direct" (generate_image(...)) or "web" (index POST)
    prompt,           \* request: prompt text
    output_arg,       \* request: output_file argument, NoPath when omitted
    width, height,    \* request: resolution
    format,           \* request: "jpg" or "png"
    num_inference_steps,
    seed_arg,         \* request: seed argument, None when omitted
    model,            \* request: model selector
    allow_fallback,   \* request: the caller's consent to the OpenAI fallback
    hf_token,         \* environment: HF_TOKEN is set
    openai_key,       \* environment: OPENAI_API_KEY is set
    now,              \* wall clock, in seconds
    pc,               \* position of the call
    seed,             \* local variable seed of generate_image
    output_file,      \* local variable output_file of generate_image
    image,            \* local variable image, NoImage before a provider returned one
    calls,            \* outbound provider calls made by this call, in order
    hf_error,         \* str(hf_error) once the primary try block raised, else NoText
    hf_report,        \* which warning the except clause printed
    openai_error,     \* str(openai_error) once the secondary try block raised
    disk,             \* the file system: path -> content
    outcome,          \* "pending", "returned", "raised"; "shown_error" when index shows an error
    raised,           \* the error the call ended with
    outside,          \* the files that exist outside the storage directory
    del,              \* the delete requests in flight: filename, position, response
    probe,            \* the last status probe: model, provider outcome, reply
    gen               \* the generate calls of concurrent processes, one record each

vars == <<entry, prompt, output_arg, width, height, format, num_inference_steps,
          seed_arg, model, allow_fallback, hf_token, openai_key, now, pc, seed,
          output_file, image, calls, hf_error, hf_report, openai_error, disk,
          outcome, raised, outside, del, probe, gen>>

request == <<entry, prompt, output_arg, width, height, format,
             num_inference_steps, seed_arg, model, allow_fallback>>
environment == <<hf_token, openai_key>>
deletion == <<outside, del>>
probing == <<probe>>
calling == <<gen>>
generation == <<request, environment, now, pc, seed, output_file, image, calls,
                hf_error, hf_report, openai_error, outcome, raised>>

----------------------------------------------------------------------------
(* Bounds of the model *)

\* random.randint(0, 2**32 - 1) is drawn from 0..MaxSeed
MaxSeed == 1
\* the clock runs from 0 to MaxClock
MaxClock == 1
\* delete requests that may be in flight at the same time
MaxDeleters == 2
\* processes that call generate_image at the same time
MaxCallers == 2

----------------------------------------------------------------------------
(* Texts *)

None == -1
NoText == <<"<none>">>

UpperAlpha == <<"A","B","C","D","E","F","G","H","I","J","K","L","M",
                "N","O","P","Q","R","S","T","U","V","W","X","Y","Z">>
LowerAlpha == <<"a","b","c","d","e","f","g","h","i","j","k","l","m",
                "n","o","p","q","r","s","t","u","v","w","x","y","z">>
Digits == {"0","1","2","3","4","5","6","7","8","9"}
Whitespace == {" ", "\t", "\n"}

\* str.lower() on one character
LowerChar(c) ==
    IF \E i \in DOMAIN UpperAlpha : UpperAlpha[i] = c
    THEN LowerAlpha[CHOOSE i \in DOMAIN UpperAlpha : UpperAlpha[i] = c]
    ELSE c

\* str.lower()
Lower(s) == [i \in DOMAIN s |-> LowerChar(s[i])]

\* Python's  t in s  for strings
Contains(s, t) ==
    \E i \in 1..(Len(s) - Len(t) + 1) : SubSeq(s, i, i + Len(t) - 1) = t

\* \w of the re module
IsWordChar(c) ==
    \/ c \in Digits
    \/ c = "_"
    \/ \E i \in DOMAIN UpperAlpha : UpperAlpha[i] = c \/ LowerAlpha[i] = c

\* s.lstrip(chars)
RECURSIVE LStrip(_, _)
LStrip(s, chars) ==
    IF s # <<>> /\ Head(s) \in chars THEN LStrip(Tail(s), chars) ELSE s

\* s.rstrip(chars)
RECURSIVE RStrip(_, _)
RStrip(s, chars) ==
    IF s # <<>> /\ s[Len(s)] \in chars
    THEN RStrip(SubSeq(s, 1, Len(s) - 1), chars)
    ELSE s

\* s.strip(chars); str.strip() without an argument strips Whitespace
Strip(s, chars) == RStrip(LStrip(s, chars), chars)

\* s[:n]
Take(s, n) == IF Len(s) <= n THEN s ELSE SubSeq(s, 1, n)

\* re.sub(r'[^\w\s-]', '', text): only word characters, whitespace and '-' stay
IsSafeChar(c) == IsWordChar(c) \/ c \in Whitespace \/ c = "-"
RemoveUnsafe(text) == SelectSeq(text, IsSafeChar)

\* re.sub(r'[-\s]+', '_', safe): every maximal run of '-' and whitespace
\* becomes one underscore
IsSeparator(c) == c = "-" \/ c \in Whitespace
RECURSIVE CollapseSeparators(_, _)
CollapseSeparators(s, inRun) ==
    IF s = <<>> THEN <<>>
    ELSE IF IsSeparator(Head(s))
         THEN (IF inRun THEN <<>> ELSE <<"_">>) \o CollapseSeparators(Tail(s), TRUE)
         ELSE <<Head(s)>> \o CollapseSeparators(Tail(s), FALSE)

max_length == 50

sanitize_filename(text) ==
    Strip(Take(CollapseSeparators(RemoveUnsafe(text), FALSE), max_length), {"_"})

----------------------------------------------------------------------------
(* Error texts the providers and the file system raise *)

Msg402 == <<"4","0","2">>
MsgPaymentRequired ==
    <<"P","a","y","m","e","n","t"," ","R","e","q","u","i","r","e","d">>
MsgQuotaExceeded == <<"Q","u","o","t","a"," ","E","x","c","e","e","d","e","d">>
Msg429 == <<"4","2","9"," ","T","o","o"," ","M","a","n","y">>
Msg401 == <<"4","0","1"," ","U","n","a","u","t","h","o","r","i","z","e","d">>
MsgTimeout == <<"t","i","m","e","d"," ","o","u","t">>
MsgBilling == <<"b","i","l","l","i","n","g"," ","l","i","m","i","t">>
MsgDownload == <<"d","o","w","n","l","o","a","d"," ","f","a","i","l","e","d">>
MsgDiskFull == <<"E","r","r","n","o"," ","2","8">>
MsgResize ==
    <<"h","e","i","g","h","t"," ","a","n","d"," ","w","i","d","t","h"," ",
      "m","u","s","t"," ","b","e"," ",">"," ","0">>
MsgTypeError == <<"u","n","e","x","p","e","c","t","e","d"," ","k","e","y","w","o","r","d">>

\* what client.text_to_image may raise
HFErrors == {Msg402, MsgPaymentRequired, MsgQuotaExceeded, Msg429, Msg401, MsgTimeout}
\* what images.generate, requests.get or Image.open may raise
OpenAIErrors == {MsgBilling, MsgDownload}

\* what image.resize raises for the requested size
ResizeErrors(w, h) == IF w > 0 /\ h > 0 THEN {} ELSE {MsgResize}

\* the test of the except clause of the primary try block
IsQuotaError(error_msg) ==
    \/ Contains(error_msg, <<"4","0","2">>)
    \/ Contains(error_msg, MsgPaymentRequired)
    \/ Contains(Lower(error_msg), <<"e","x","c","e","e","d","e","d">>)

----------------------------------------------------------------------------
(* Requests, paths, images and files *)

FluxSchnell == "black-forest-labs/FLUX.1-schnell"
DallE3 == "dall-e-3"
Models == {FluxSchnell, DallE3}

Jpg == <<"j","p","g">>
Png == <<"p","n","g">>
Json == <<"j","s","o","n">>
Formats == {Jpg, Png}

Prompts == { <<"a"," ","c","a","t">>, <<"a","-","c","a","t","!">>, <<" ">> }
DimPairs == { <<1344, 768>>, <<768, 1344>>, <<512, 512>>, <<0, 768>> }
StepCounts == {4}
SeedArgs == {None, 42}

\* a path below output/: "<ts>_<slug>.<ext>", or the name the caller gave
NoPath == [ts |-> None, slug |-> <<>>, ext |-> <<>>]
GivenPath == [ts |-> None, slug |-> <<"o","u","t">>, ext |-> Png]

\* Path.with_suffix
with_suffix(path, suffix) == [path EXCEPT !.ext = suffix]

NoImage == [size |-> <<0, 0>>, mode |-> "none"]
ImageModes == {"RGB", "RGBA"}

\* image.resize((width, height), LANCZOS)
Resize(img, w, h) == [img EXCEPT !.size = <<w, h>>]

\* the file image.save leaves: JPEG data is never RGBA, the other formats keep
\* the mode and take the codec from the extension of the path
SavedImage(img, fmt, path) ==
    IF Lower(fmt) = Jpg
    THEN [kind |-> "image", size |-> img.size, mode |-> "RGB", codec |-> Jpg]
    ELSE [kind |-> "image", size |-> img.size, mode |-> img.mode, codec |-> path.ext]

EmptyDisk == [p \in {} |-> NoImage]

WriteFile(d, path, content) ==
    [p \in DOMAIN d \cup {path} |-> IF p = path THEN content ELSE d[p]]

Exists(d, path) == path \in DOMAIN d

\* the name generate_image builds when output_file is omitted
DefaultOutputFile(text, fmt, time) ==
    [ts |-> time, slug |-> sanitize_filename(text), ext |-> Lower(fmt)]

\* build_output_filename of the web front end
build_output_filename(text, extension, time) ==
    [ts |-> time,
     slug |-> IF sanitize_filename(text) = <<>>
              THEN <<"i","m","a","g","e">> ELSE sanitize_filename(text),
     ext |-> extension]

\* variant of DalleSize: a square request is treated as a wide one
DalleSize_SquareIsWide(w, h) ==
    IF w >= h THEN <<1792, 1024>> ELSE <<1024, 1792>>

\* the size DALL-E 3 is asked for
DalleSize(w, h) ==
    IF w = h THEN <<1024, 1024>>
    ELSE IF w > h THEN <<1792, 1024>>
    ELSE <<1024, 1792>>

\* the sidecar of the primary branch
HFMetadata(p, w, h, fmt, steps, s, m, time, path) ==
    [prompt |-> p, width |-> w, height |-> h, format |-> fmt,
     num_inference_steps |-> steps, seed |-> s, model |-> m,
     service |-> "huggingface", timestamp |-> time, filename |-> path]

\* variant of OpenAIMetadata: the seed DALL-E 3 ignores is recorded as 0
OpenAIMetadata_SeedReset(p, w, h, fmt, s, size, time, path) ==
    [prompt |-> p, width |-> w, height |-> h, format |-> fmt,
     seed |-> 0, model |-> DallE3, service |-> "openai",
     original_size |-> size, timestamp |-> time, filename |-> path]

\* the sidecar of the secondary branch
OpenAIMetadata(p, w, h, fmt, s, size, time, path) ==
    [prompt |-> p, width |-> w, height |-> h, format |-> fmt,
     seed |-> s, model |-> DallE3, service |-> "openai",
     original_size |-> size, timestamp |-> time, filename |-> path]

Sidecar(metadata) == [kind |-> "json", metadata |-> metadata]

\* errors a call ends with
NoError == [type |-> "none", text |-> "", detail |-> <<>>]
NoKeyError ==
    [type |-> "ValueError",
     text |-> "Both HuggingFace and OpenAI failed. No OPENAI_API_KEY found in .env file.",
     detail |-> <<>>]
\* variant of BothFailedError: the provider's exception is passed on as it is
BothFailedError_Raw(openai_msg) ==
    [type |-> "APIError", text |-> "", detail |-> openai_msg]

BothFailedError(openai_msg) ==
    [type |-> "ValueError",
     text |-> "Both HuggingFace and OpenAI failed. OpenAI error: ",
     detail |-> openai_msg]

----------------------------------------------------------------------------
(* Paths of delete requests and the files on disk beside the storage *)

\* a path is a sequence of components; a component is a file or directory
\* name, written like the names above
Dir(chars) == [ts |-> None, slug |-> chars, ext |-> <<>>]
DotDot == Dir(<<".", ".">>)
OutputDir == Dir(<<"o","u","t","p","u","t">>)
WorkDir == Dir(<<"a","p","p">>)
SubDir == Dir(<<"s","u","b">>)

\* Path.resolve() without symbolic links: '..' drops the component before it
RECURSIVE Normalize(_, _)
Normalize(path, done) ==
    IF path = <<>> THEN done
    ELSE IF Head(path) = DotDot
         THEN Normalize(Tail(path),
                        IF done = <<>> THEN <<>> ELSE SubSeq(done, 1, Len(done) - 1))
         ELSE Normalize(Tail(path), Append(done, Head(path)))

\* Path("output"), relative to the working directory of the process
output_dir == <<OutputDir>>
resolve(path) == Normalize(path, <<WorkDir>>)

\* PurePath.is_relative_to
is_relative_to(path, base) ==
    Len(path) >= Len(base) /\ SubSeq(path, 1, Len(base)) = base

\* output_dir / filename
JoinPath(base, filename) == base \o filename

\* the path with the suffix of its last component replaced
path_with_suffix(path, suffix) ==
    [path EXCEPT ![Len(path)] = with_suffix(path[Len(path)], suffix)]

\* the directories that exist
Directories == { <<>>, <<WorkDir>>, <<WorkDir, OutputDir>> }

\* the operating system walks a path component by component: every prefix it
\* passes through has to be an existing directory
RECURSIVE Walkable(_, _)
Walkable(path, at) ==
    IF Len(path) <= 1 THEN at \in Directories
    ELSE /\ at \in Directories
         /\ Walkable(Tail(path), Normalize(<<Head(path)>>, at))

\* the file a path names, as the operating system finds it
Located(path) == Normalize(path, <<WorkDir>>)

\* Path.exists(): the path leads to a file of the storage directory, to a file
\* outside of it, or to a directory
PathExists(d, out, path) ==
    /\ path # <<>>
    /\ Walkable(path, <<WorkDir>>)
    /\ LET at == Located(path)
       IN  \/ at \in Directories
           \/ at \in out
           \/ /\ Len(at) = 3
              /\ SubSeq(at, 1, 2) = <<WorkDir, OutputDir>>
              /\ Exists(d, at[3])

IsDirectory(path) == Walkable(path, <<WorkDir>>) /\ Located(path) \in Directories

\* the storage directory after Path.unlink() of a path that names one of its files
Unlinked(d, path) == [p \in DOMAIN d \ {Located(path)[3]} |-> d[p]]

\* the files outside the storage directory after Path.unlink()
UnlinkedOutside(out, path) == out \ {Located(path)}

\* the answers of delete_image
NoResponse == [status |-> 0, success |-> FALSE, text |-> ""]
InvalidPath == [status |-> 400, success |-> FALSE, text |-> "Invalid file path"]
NotFound == [status |-> 404, success |-> FALSE, text |-> "Image file not found"]
Deleted ==
    [status |-> 200, success |-> TRUE, text |-> "Image and metadata deleted successfully"]
ServerError(exc) == [status |-> 500, success |-> FALSE, text |-> exc]
ErrNoEntry == "[Errno 2] No such file or directory"
ErrIsDirectory == "[Errno 21] Is a directory"

Deleters == 1..MaxDeleters
IdleDeleter == [pc |-> "idle", filename |-> <<>>, response |-> NoResponse]
NewDeleter(filename) == [pc |-> "guard", filename |-> filename, response |-> NoResponse]

\* files the model starts with
StoredImageName == DefaultOutputFile(<<"a"," ","c","a","t">>, Jpg, 0)
OtherImageName == DefaultOutputFile(<<"d","o","g">>, Png, 0)
SecretName == Dir(<<"s","e","c","r","e","t">>)
MissingName == [ts |-> None, slug |-> <<"n","o","n","e","x","i","s","t","e","n","t">>, ext |-> Jpg]

StoredImage(name, fmt) ==
    SavedImage([size |-> <<1344, 768>>, mode |-> "RGB"], fmt, name)
StoredSidecar(name, text, fmt) ==
    Sidecar(HFMetadata(text, 1344, 768, fmt, 4, 42, FluxSchnell, 0, name))

\* the second artifact is complete in every initial storage
OtherPair ==
    WriteFile(WriteFile(EmptyDisk, OtherImageName, StoredImage(OtherImageName, Png)),
              with_suffix(OtherImageName, Json),
              StoredSidecar(OtherImageName, <<"d","o","g">>, Png))

\* the first artifact: complete, absent, or one of the two orphans that an
\* interrupted persist or delete leaves
InitialStorages ==
    LET img == StoredImage(StoredImageName, Jpg)
        meta == StoredSidecar(StoredImageName, <<"a"," ","c","a","t">>, Jpg)
        json == with_suffix(StoredImageName, Json)
    IN  { OtherPair,
          WriteFile(OtherPair, StoredImageName, img),
          WriteFile(OtherPair, json, meta),
          WriteFile(WriteFile(OtherPair, StoredImageName, img), json, meta) }

InitialOutside == { <<WorkDir, SecretName>> }

\* the filenames of the delete requests
DeleteNames ==
    { <<StoredImageName>>,
      <<with_suffix(StoredImageName, Json)>>,
      <<MissingName>>,
      <<DotDot, SecretName>>,
      <<DotDot, OutputDir, StoredImageName>>,
      <<SubDir, DotDot, StoredImageName>>,
      <<DotDot, OutputDir>> }

----------------------------------------------------------------------------
(* The status probe.  check_huggingface_status is imported by web_app.py     *)
(* but is not part of generate_image.py: it is modelled from section 4.5 of  *)
(* the specification.                                                        *)

MsgRateLimit == <<"R","a","t","e"," ","l","i","m","i","t">>
MsgSeparator == <<":"," ">>

\* what the minimal provider call of the probe may raise: one or two of the
\* known fragments in a row
ProbeFragments ==
    {Msg402, MsgPaymentRequired, MsgQuotaExceeded, Msg429, Msg401, MsgTimeout,
     MsgRateLimit, MsgSeparator}
ProbeErrors == ProbeFragments \cup {a \o b : a, b \in ProbeFragments}

ProbeSuccess == [ok |-> TRUE, error |-> <<>>]
ProbeFailure(error_msg) == [ok |-> FALSE, error |-> error_msg]
ProbeOutcomes == {ProbeSuccess} \cup {ProbeFailure(e) : e \in ProbeErrors}

\* the length the message of an 'error' reply is cut to
StatusMessageLimit == 20

\* classify of section 4.1, with the quota test of generate_image
classify(error_msg) ==
    IF IsQuotaError(error_msg) THEN "QUOTA_OR_PAYMENT"
    ELSE IF Contains(error_msg, <<"4","2","9">>) THEN "RATE_LIMITED"
    ELSE "FATAL"

check_huggingface_status_QuotaOnly(result) ==
    IF result.ok THEN [status |-> "available", message |-> <<>>]
    ELSE IF classify(result.error) = "QUOTA_OR_PAYMENT"
         THEN [status |-> "limit", message |-> <<>>]
         ELSE [status |-> "error", message |-> Take(result.error, StatusMessageLimit)]

check_huggingface_status(result) ==
    IF result.ok THEN [status |-> "available", message |-> <<>>]
    ELSE IF classify(result.error) \in {"QUOTA_OR_PAYMENT", "RATE_LIMITED"}
         THEN [status |-> "limit", message |-> <<>>]
         ELSE [status |-> "error", message |-> Take(result.error, StatusMessageLimit)]

NoProbe == [model |-> "", outcome |-> ProbeSuccess,
            reply |-> [status |-> "none", message |-> <<>>]]

----------------------------------------------------------------------------
(* generate_image called by several processes on one storage directory *)

Generators == 1..MaxCallers

\* prompts of the concurrent calls; both have the slug "a_cat"
PairPrompts == { <<"a"," ","c","a","t">>, <<"a","-","c","a","t","!">> }

IdleGenerator ==
    [pc |-> "idle", prompt |-> <<>>, format |-> Jpg, seed |-> None,
     output_file |-> NoPath, service |-> "none", outcome |-> "pending",
     written |-> {}]

NewGenerator(text, fmt) ==
    [IdleGenerator EXCEPT !.pc = "start", !.prompt = text, !.format = fmt]

----------------------------------------------------------------------------
(* The state after construction: a request, an environment, nothing done *)

Init ==
    /\ entry \in {"direct", "web"}
    /\ prompt \in Prompts
    /\ output_arg \in (IF entry = "direct" THEN {NoPath, GivenPath} ELSE {NoPath})
    /\ \E d \in DimPairs : width = d[1] /\ height = d[2]
    /\ format \in Formats
    /\ num_inference_steps \in StepCounts
    /\ seed_arg \in SeedArgs
    /\ model \in Models
    /\ allow_fallback \in BOOLEAN
    /\ hf_token \in BOOLEAN
    /\ openai_key \in BOOLEAN
    /\ now = 0
    /\ pc = "start"
    /\ seed = None
    /\ output_file = NoPath
    /\ image = NoImage
    /\ calls = <<>>
    /\ hf_error = NoText
    /\ hf_report = "none"
    /\ openai_error = NoText
    /\ disk = EmptyDisk
    /\ outcome = "pending"
    /\ raised = NoError
    /\ outside = InitialOutside
    /\ probe = NoProbe
    /\ gen = [g \in Generators |-> IdleGenerator]
    /\ del = [d \in Deleters |-> IdleDeleter]

----------------------------------------------------------------------------
(* generate_image, step by step *)

\* lines 30-32: the caller's seed, or one random draw
SeedChoices(arg) == IF arg = None THEN 0..MaxSeed ELSE {arg}

\* lines 38-45: the output path
OutputFile(arg, text, fmt, time) ==
    IF arg = NoPath THEN DefaultOutputFile(text, fmt, time) ELSE arg

\* variants of UsePrimary: the model selector is not consulted; the primary
\* is tried only when both credentials are present
UsePrimary_IgnoresModel(token, m) == token
UsePrimary_NeedsBothKeys(token, m) == token /\ openai_key /\ m # DallE3

\* line 53: the primary provider is tried
UsePrimary(token, m) == token /\ m # DallE3

\* variant of AfterHFError: a quota error ends the call instead of falling back
AfterHFError_QuotaEnds(error_msg) ==
    IF IsQuotaError(error_msg) THEN "done" ELSE "fallback"

\* variants of AfterHFError: the primary provider is tried again; the call
\* ends without a word
AfterHFError_Retry(error_msg) == "primary"
AfterHFError_Ends(error_msg) == "done"

\* lines 102-111: where the call goes once the primary try block raised;
\* both arms of the test print "Falling back to OpenAI..." and fall through
AfterHFError(error_msg) == "fallback"

\* the warning the except clause prints
HFReport(error_msg) == IF IsQuotaError(error_msg) THEN "quota" ELSE "error"

HFCallRecord ==
    [provider |-> "huggingface", model |-> model, prompt |-> prompt,
     size |-> <<width, height>>, steps |-> num_inference_steps, seed |-> seed]

OpenAICallRecord ==
    [provider |-> "openai", model |-> DallE3, prompt |-> prompt,
     size |-> DalleSize(width, height)]

\* the except clause of the primary try block
HFExcept(error_msg) ==
    /\ hf_error' = error_msg
    /\ hf_report' = HFReport(error_msg)
    /\ pc' = AfterHFError(error_msg)

\* lines 196-198: the except clause of the secondary try block
OpenAIExcept(error_msg) ==
    /\ openai_error' = error_msg
    /\ raised' = BothFailedError(error_msg)
    /\ outcome' = "raised"
    /\ pc' = "done"

\* lines 30-49
Begin ==
    /\ pc = "start"
    /\ entry = "direct"
    /\ seed' \in SeedChoices(seed_arg)
    /\ output_file' = OutputFile(output_arg, prompt, format, now)
    /\ pc' = "primary"
    /\ UNCHANGED <<calling, probing, deletion, request, environment, now, image, calls, hf_error, hf_report,
                   openai_error, disk, outcome, raised>>

\* lines 52-68 and 102-111: client.text_to_image returns an image or raises
HFCall ==
    /\ pc = "primary"
    /\ UsePrimary(hf_token, model)
    /\ calls' = Append(calls, HFCallRecord)
    /\ \/ /\ width > 0 /\ height > 0     \* an image has positive dimensions
          /\ \E mode \in ImageModes :
                image' = [size |-> <<width, height>>, mode |-> mode]
          /\ pc' = "hf_save"
          /\ UNCHANGED <<hf_error, hf_report>>
       \/ /\ \E error_msg \in HFErrors : HFExcept(error_msg)
          /\ UNCHANGED image
    /\ UNCHANGED <<calling, probing, deletion, request, environment, now, seed, output_file, openai_error,
                   disk, outcome, raised>>

\* lines 112-114: no token, or DALL-E 3 selected
SkipHF ==
    /\ pc = "primary"
    /\ ~UsePrimary(hf_token, model)
    /\ hf_report' = IF model # DallE3 THEN "no_token" ELSE "none"
    /\ pc' = "fallback"
    /\ UNCHANGED <<calling, probing, deletion, request, environment, now, seed, output_file, image, calls,
                   hf_error, openai_error, disk, outcome, raised>>

\* lines 70-80: image.save writes the file or raises inside the try block
HFSave ==
    /\ pc = "hf_save"
    /\ \/ /\ disk' = WriteFile(disk, output_file, SavedImage(image, format, output_file))
          /\ pc' = "hf_meta"
          /\ UNCHANGED <<hf_error, hf_report>>
       \/ /\ HFExcept(MsgDiskFull)
          /\ UNCHANGED disk
    /\ UNCHANGED <<calling, probing, deletion, request, environment, now, seed, output_file, image, calls,
                   openai_error, outcome, raised>>

\* lines 82-100: the sidecar is written and the call returns, or open raises
HFMeta ==
    /\ pc = "hf_meta"
    /\ \/ /\ disk' = WriteFile(disk, with_suffix(output_file, Json),
                        Sidecar(HFMetadata(prompt, width, height, format,
                                           num_inference_steps, seed, model,
                                           now, output_file)))
          /\ outcome' = "returned"
          /\ pc' = "done"
          /\ UNCHANGED <<hf_error, hf_report>>
       \/ /\ HFExcept(MsgDiskFull)
          /\ UNCHANGED <<disk, outcome>>
    /\ UNCHANGED <<calling, probing, deletion, request, environment, now, seed, output_file, image, calls,
                   openai_error, raised>>

\* lines 117-119
OpenAINoKey ==
    /\ pc = "fallback"
    /\ ~openai_key
    /\ raised' = NoKeyError
    /\ outcome' = "raised"
    /\ pc' = "done"
    /\ UNCHANGED <<calling, probing, deletion, request, environment, now, seed, output_file, image, calls,
                   hf_error, hf_report, openai_error, disk>>

\* lines 121-163: images.generate, the download and the resize, or an exception
OpenAICall ==
    /\ pc = "fallback"
    /\ openai_key
    /\ calls' = Append(calls, OpenAICallRecord)
    /\ \/ /\ ResizeErrors(width, height) = {}
          /\ \E mode \in ImageModes :
                LET got == [size |-> DalleSize(width, height), mode |-> mode]
                IN  image' = IF got.size # <<width, height>>
                             THEN Resize(got, width, height) ELSE got
          /\ pc' = "openai_save"
          /\ UNCHANGED <<openai_error, raised, outcome>>
       \/ /\ \E error_msg \in OpenAIErrors \cup ResizeErrors(width, height) :
                OpenAIExcept(error_msg)
          /\ UNCHANGED image
    /\ UNCHANGED <<calling, probing, deletion, request, environment, now, seed, output_file, hf_error,
                   hf_report, disk>>

\* lines 165-175
OpenAISave ==
    /\ pc = "openai_save"
    /\ \/ /\ disk' = WriteFile(disk, output_file, SavedImage(image, format, output_file))
          /\ pc' = "openai_meta"
          /\ UNCHANGED <<openai_error, raised, outcome>>
       \/ /\ OpenAIExcept(MsgDiskFull)
          /\ UNCHANGED disk
    /\ UNCHANGED <<calling, probing, deletion, request, environment, now, seed, output_file, image, calls,
                   hf_error, hf_report>>

\* lines 177-194: the sidecar is written and the function ends, or open raises
OpenAIMeta ==
    /\ pc = "openai_meta"
    /\ \/ /\ disk' = WriteFile(disk, with_suffix(output_file, Json),
                        Sidecar(OpenAIMetadata(prompt, width, height, format, seed,
                                               DalleSize(width, height), now,
                                               output_file)))
          /\ outcome' = "returned"
          /\ pc' = "done"
          /\ UNCHANGED <<openai_error, raised>>
       \/ /\ OpenAIExcept(MsgDiskFull)
          /\ UNCHANGED disk
    /\ UNCHANGED <<calling, probing, deletion, request, environment, now, seed, output_file, image, calls,
                   hf_error, hf_report>>

----------------------------------------------------------------------------
(* The web front end *)

EmptyPromptError == [type |-> "form", text |-> "Prompt must not be empty.", detail |-> <<>>]
CouldNotGenerate(exc) ==
    [type |-> "form", text |-> "Could not generate image: ", detail |-> exc]

\* index, POST: the prompt check, build_output_filename and the call
\* generate_image(..., allow_fallback=allow_fallback).  generate_image has no
\* parameter of that name, so the call raises TypeError before its body runs
\* and the handler shows the error.
IndexPost ==
    /\ pc = "start"
    /\ entry = "web"
    /\ IF Strip(prompt, Whitespace) = <<>>
       THEN /\ raised' = EmptyPromptError
            /\ UNCHANGED output_file
       ELSE /\ output_file' = build_output_filename(prompt, format, now)
            /\ raised' = CouldNotGenerate(MsgTypeError)
    /\ outcome' = "shown_error"
    /\ pc' = "done"
    /\ UNCHANGED <<calling, probing, deletion, request, environment, now, seed, image, calls, hf_error,
                   hf_report, openai_error, disk>>

\* time passes while a call runs
Tick ==
    /\ pc # "done"
    /\ now < MaxClock
    /\ now' = now + 1
    /\ UNCHANGED <<calling, probing, deletion, request, environment, pc, seed, output_file, image, calls,
                   hf_error, hf_report, openai_error, disk, outcome, raised>>

Next ==
    \/ Begin
    \/ HFCall
    \/ SkipHF
    \/ HFSave
    \/ HFMeta
    \/ OpenAINoKey
    \/ OpenAICall
    \/ OpenAISave
    \/ OpenAIMeta
    \/ IndexPost
    \/ Tick

Spec == Init /\ [][Next]_vars

\* the statements of one call; every provider call and file operation returns
\* or raises, so a call that can take its next step takes it
Steps ==
    \/ Begin
    \/ HFCall
    \/ SkipHF
    \/ HFSave
    \/ HFMeta
    \/ OpenAINoKey
    \/ OpenAICall
    \/ OpenAISave
    \/ OpenAIMeta
    \/ IndexPost

SpecLive == Init /\ [][Next]_vars /\ WF_vars(Steps)

----------------------------------------------------------------------------
(* delete_image, step by step; d is the request *)

\* line 381
image_path(filename) == JoinPath(output_dir, filename)

\* line 392
json_path(filename) == path_with_suffix(image_path(filename), Json)

\* variant of GuardAccepts: the unresolved path is compared, so '..' passes
GuardAccepts_Unresolved(filename) ==
    is_relative_to(image_path(filename), output_dir)

\* line 384: the security check
GuardAccepts(filename) ==
    is_relative_to(resolve(image_path(filename)), resolve(output_dir))

\* variant of ImagePresent: the existence check is left out
ImagePresent_Unchecked(d, out, filename) == TRUE

\* line 388
ImagePresent(d, out, filename) == PathExists(d, out, image_path(filename))

\* variant of SidecarPresent: the sidecar is never looked for
SidecarPresent_Never(d, out, filename) == FALSE

\* line 398
SidecarPresent(d, out, filename) == PathExists(d, out, json_path(filename))

Respond(d, response) ==
    del' = [del EXCEPT ![d].pc = "done", ![d].response = response]

Goto(d, position) == del' = [del EXCEPT ![d].pc = position]

\* Path.unlink(): the file goes, or the call raises because nothing, or a
\* directory, is there; the except clause at lines 403-404 answers 500
Unlink(d, path, position) ==
    IF ~PathExists(disk, outside, path)
    THEN Respond(d, ServerError(ErrNoEntry)) /\ UNCHANGED <<disk, outside>>
    ELSE IF IsDirectory(path)
    THEN Respond(d, ServerError(ErrIsDirectory)) /\ UNCHANGED <<disk, outside>>
    ELSE IF Located(path) \in outside
    THEN /\ outside' = UnlinkedOutside(outside, path)
         /\ Goto(d, position)
         /\ UNCHANGED disk
    ELSE /\ disk' = Unlinked(disk, path)
         /\ Goto(d, position)
         /\ UNCHANGED outside

\* lines 380-385
DeleteGuard(d) ==
    /\ del[d].pc = "guard"
    /\ IF GuardAccepts(del[d].filename)
       THEN Goto(d, "exists")
       ELSE Respond(d, InvalidPath)
    /\ UNCHANGED <<disk, outside, generation, probing, calling>>

\* lines 387-389
DeleteExists(d) ==
    /\ del[d].pc = "exists"
    /\ IF ImagePresent(disk, outside, del[d].filename)
       THEN Goto(d, "unlink_image")
       ELSE Respond(d, NotFound)
    /\ UNCHANGED <<disk, outside, generation, probing, calling>>

\* lines 394-395
DeleteUnlinkImage(d) ==
    /\ del[d].pc = "unlink_image"
    /\ Unlink(d, image_path(del[d].filename), "json_exists")
    /\ UNCHANGED <<generation, probing, calling>>

\* lines 397-398 and, without a sidecar, line 401
DeleteJsonExists(d) ==
    /\ del[d].pc = "json_exists"
    /\ IF SidecarPresent(disk, outside, del[d].filename)
       THEN Goto(d, "unlink_json")
       ELSE Respond(d, Deleted)
    /\ UNCHANGED <<disk, outside, generation, probing, calling>>

\* lines 399-401
DeleteUnlinkJson(d) ==
    /\ del[d].pc = "unlink_json"
    /\ IF PathExists(disk, outside, json_path(del[d].filename))
       THEN /\ disk' = Unlinked(disk, json_path(del[d].filename))
            /\ Respond(d, Deleted)
       ELSE /\ Respond(d, ServerError(ErrNoEntry))
            /\ UNCHANGED disk
    /\ UNCHANGED <<outside, generation, probing, calling>>

\* delete requests alone: every request is in flight from the start, the
\* storage holds one complete artifact and any remainder of another
DeleteInit ==
    /\ entry = "direct"
    /\ prompt = <<"a"," ","c","a","t">>
    /\ output_arg = NoPath
    /\ width = 1344 /\ height = 768
    /\ format = Jpg
    /\ num_inference_steps = 4
    /\ seed_arg = 42
    /\ model = FluxSchnell
    /\ allow_fallback = FALSE
    /\ hf_token = TRUE
    /\ openai_key = FALSE
    /\ now = 0
    /\ pc = "idle"
    /\ seed = None
    /\ output_file = NoPath
    /\ image = NoImage
    /\ calls = <<>>
    /\ hf_error = NoText
    /\ hf_report = "none"
    /\ openai_error = NoText
    /\ outcome = "pending"
    /\ raised = NoError
    /\ disk \in InitialStorages
    /\ outside = InitialOutside
    /\ probe = NoProbe
    /\ gen = [g \in Generators |-> IdleGenerator]
    /\ del \in [Deleters -> {NewDeleter(f) : f \in DeleteNames}]

DeleteNext ==
    \E d \in Deleters :
        \/ DeleteGuard(d)
        \/ DeleteExists(d)
        \/ DeleteUnlinkImage(d)
        \/ DeleteJsonExists(d)
        \/ DeleteUnlinkJson(d)

SpecDelete == DeleteInit /\ [][DeleteNext]_vars

\* delete requests one after the other: a request arrives only while no
\* other request is in flight
DeleteArrive(d) ==
    /\ del[d].pc = "idle"
    /\ \A e \in Deleters : del[e].pc \in {"idle", "done"}
    /\ \E f \in DeleteNames : del' = [del EXCEPT ![d] = NewDeleter(f)]
    /\ UNCHANGED <<disk, outside, generation, probing, calling>>

SerialInit ==
    /\ entry = "direct"
    /\ prompt = <<"a"," ","c","a","t">>
    /\ output_arg = NoPath
    /\ width = 1344 /\ height = 768
    /\ format = Jpg
    /\ num_inference_steps = 4
    /\ seed_arg = 42
    /\ model = FluxSchnell
    /\ allow_fallback = FALSE
    /\ hf_token = TRUE
    /\ openai_key = FALSE
    /\ now = 0
    /\ pc = "idle"
    /\ seed = None
    /\ output_file = NoPath
    /\ image = NoImage
    /\ calls = <<>>
    /\ hf_error = NoText
    /\ hf_report = "none"
    /\ openai_error = NoText
    /\ outcome = "pending"
    /\ raised = NoError
    /\ disk \in InitialStorages
    /\ outside = InitialOutside
    /\ probe = NoProbe
    /\ gen = [g \in Generators |-> IdleGenerator]
    /\ del = [d \in Deleters |-> IdleDeleter]

SerialNext ==
    \E d \in Deleters :
        \/ DeleteArrive(d)
        \/ DeleteGuard(d)
        \/ DeleteExists(d)
        \/ DeleteUnlinkImage(d)
        \/ DeleteJsonExists(d)
        \/ DeleteUnlinkJson(d)

SpecSerial == SerialInit /\ [][SerialNext]_vars

----------------------------------------------------------------------------
(* The gallery, and generate and delete on the same storage *)

\* variant of get_gallery_items: the image is not looked for
get_gallery_items_Unchecked(d) ==
    { [metadata |-> d[j].metadata,
       filename |-> with_suffix(j, d[j].metadata.format),
       json |-> j] :
      j \in {k \in DOMAIN d : k.ext = Json /\ d[k].kind = "json"} }

\* get_gallery_items: every *.json file that loads and whose image, named by
\* the sidecar's name with the suffix of metadata['format'], exists.  The
\* storage of the model stays below limit=50 entries; the order of the list
\* (newest first) is not part of the model.
get_gallery_items(d) ==
    { [metadata |-> d[j].metadata,
       filename |-> with_suffix(j, d[j].metadata.format),
       json |-> j] :
      j \in {k \in DOMAIN d : /\ k.ext = Json
                              /\ d[k].kind = "json"
                              /\ Exists(d, with_suffix(k, d[k].metadata.format))} }

\* the process is killed: whatever is in flight stops where it is
Crash ==
    /\ \/ pc \notin {"idle", "done", "crashed"}
       \/ \E d \in Deleters : del[d].pc \notin {"idle", "done", "crashed"}
    /\ pc' = "crashed"
    /\ del' = [d \in Deleters |-> [del[d] EXCEPT !.pc = "crashed"]]
    /\ UNCHANGED <<request, environment, now, seed, output_file, image, calls,
                   hf_error, hf_report, openai_error, disk, outcome, raised, outside,
                   probing, calling>>

\* one generate call and one delete request on a storage that holds one
\* complete artifact; the call writes the artifact the delete may name
StoreInit ==
    /\ entry = "direct"
    /\ prompt = <<"a"," ","c","a","t">>
    /\ output_arg = NoPath
    /\ width = 1344 /\ height = 768
    /\ format = Jpg
    /\ num_inference_steps = 4
    /\ seed_arg = 42
    /\ model \in Models
    /\ allow_fallback = TRUE
    /\ hf_token \in BOOLEAN
    /\ openai_key \in BOOLEAN
    /\ now = 0
    /\ pc = "start"
    /\ seed = None
    /\ output_file = NoPath
    /\ image = NoImage
    /\ calls = <<>>
    /\ hf_error = NoText
    /\ hf_report = "none"
    /\ openai_error = NoText
    /\ outcome = "pending"
    /\ raised = NoError
    /\ disk = OtherPair
    /\ outside = InitialOutside
    /\ probe = NoProbe
    /\ gen = [g \in Generators |-> IdleGenerator]
    /\ \E f \in DeleteNames :
          del = [d \in Deleters |-> IF d = 1 THEN NewDeleter(f) ELSE IdleDeleter]

StoreNext ==
    \/ Begin
    \/ HFCall
    \/ SkipHF
    \/ HFSave
    \/ HFMeta
    \/ OpenAINoKey
    \/ OpenAICall
    \/ OpenAISave
    \/ OpenAIMeta
    \/ \E d \in Deleters :
          \/ DeleteGuard(d)
          \/ DeleteExists(d)
          \/ DeleteUnlinkImage(d)
          \/ DeleteJsonExists(d)
          \/ DeleteUnlinkJson(d)
    \/ Crash

SpecStore == StoreInit /\ [][StoreNext]_vars

----------------------------------------------------------------------------
(* The status route *)

\* api_status: the model of the query string, the probe, the JSON reply
ApiStatus ==
    /\ \E m \in Models, result \in ProbeOutcomes :
          probe' = [model |-> m, outcome |-> result,
                    reply |-> check_huggingface_status(result)]
    /\ UNCHANGED <<generation, disk, deletion, calling>>

ProbeInit ==
    /\ entry = "web"
    /\ prompt = <<"a"," ","c","a","t">>
    /\ output_arg = NoPath
    /\ width = 1344 /\ height = 768
    /\ format = Jpg
    /\ num_inference_steps = 4
    /\ seed_arg = None
    /\ model = FluxSchnell
    /\ allow_fallback = FALSE
    /\ hf_token = TRUE
    /\ openai_key = FALSE
    /\ now = 0
    /\ pc = "idle"
    /\ seed = None
    /\ output_file = NoPath
    /\ image = NoImage
    /\ calls = <<>>
    /\ hf_error = NoText
    /\ hf_report = "none"
    /\ openai_error = NoText
    /\ outcome = "pending"
    /\ raised = NoError
    /\ disk = EmptyDisk
    /\ outside = InitialOutside
    /\ del = [d \in Deleters |-> IdleDeleter]
    /\ probe = NoProbe
    /\ gen = [g \in Generators |-> IdleGenerator]

ProbeNext == ApiStatus

SpecProbe == ProbeInit /\ [][ProbeNext]_vars

----------------------------------------------------------------------------
(* generate_image in several processes: the steps of process g.  The size,   *)
(* the step count and the model are the defaults; which provider serves the  *)
(* call is the outcome of the provider calls.                                *)

\* lines 116-198 seen from a caller: DALL-E 3 takes the call over, or the
\* call ends with the ValueError of line 119 or line 198
GenSecondary(g) ==
    \/ gen' = [gen EXCEPT ![g].service = "openai", ![g].pc = "save"]
    \/ gen' = [gen EXCEPT ![g].outcome = "raised", ![g].pc = "done"]

\* what a failed step does: the primary try block falls through to the
\* secondary provider, the secondary try block raises
GenExcept(g) ==
    IF gen[g].service = "huggingface"
    THEN GenSecondary(g)
    ELSE gen' = [gen EXCEPT ![g].outcome = "raised", ![g].pc = "done"]

GenMetadata(g) ==
    IF gen[g].service = "huggingface"
    THEN HFMetadata(gen[g].prompt, 1344, 768, gen[g].format, 4, gen[g].seed,
                    FluxSchnell, now, gen[g].output_file)
    ELSE OpenAIMetadata(gen[g].prompt, 1344, 768, gen[g].format, gen[g].seed,
                        DalleSize(1344, 768), now, gen[g].output_file)

\* lines 30-49: the seed and the output path
GenBegin(g) ==
    /\ gen[g].pc = "start"
    /\ \E s \in SeedChoices(None) :
          gen' = [gen EXCEPT ![g].seed = s,
                             ![g].output_file =
                                 OutputFile(NoPath, gen[g].prompt, gen[g].format, now),
                             ![g].pc = "primary"]
    /\ UNCHANGED <<generation, disk, deletion, probing>>

\* lines 52-68, 102-163: the primary provider returns an image, or the call
\* goes on to the secondary provider
GenProvide(g) ==
    /\ gen[g].pc = "primary"
    /\ \/ gen' = [gen EXCEPT ![g].service = "huggingface", ![g].pc = "save"]
       \/ GenSecondary(g)
    /\ UNCHANGED <<generation, disk, deletion, probing>>

\* lines 70-80, 165-175: image.save
GenSave(g) ==
    /\ gen[g].pc = "save"
    /\ \/ /\ disk' = WriteFile(disk, gen[g].output_file,
                        SavedImage([size |-> <<1344, 768>>, mode |-> "RGB"],
                                   gen[g].format, gen[g].output_file))
          /\ gen' = [gen EXCEPT ![g].pc = "meta",
                                ![g].written = @ \cup {gen[g].output_file}]
       \/ /\ GenExcept(g)
          /\ UNCHANGED disk
    /\ UNCHANGED <<generation, deletion, probing>>

\* lines 82-100, 177-194: the sidecar, then the call returns
GenMeta(g) ==
    /\ gen[g].pc = "meta"
    /\ \/ /\ disk' = WriteFile(disk, with_suffix(gen[g].output_file, Json),
                               Sidecar(GenMetadata(g)))
          /\ gen' = [gen EXCEPT ![g].pc = "done", ![g].outcome = "returned",
                                ![g].written =
                                    @ \cup {with_suffix(gen[g].output_file, Json)}]
       \/ /\ GenExcept(g)
          /\ UNCHANGED disk
    /\ UNCHANGED <<generation, deletion, probing>>

PairInit ==
    /\ entry = "direct"
    /\ prompt = <<"a"," ","c","a","t">>
    /\ output_arg = NoPath
    /\ width = 1344 /\ height = 768
    /\ format = Jpg
    /\ num_inference_steps = 4
    /\ seed_arg = None
    /\ model = FluxSchnell
    /\ allow_fallback = FALSE
    /\ hf_token = TRUE
    /\ openai_key = TRUE
    /\ now = 0
    /\ pc = "idle"
    /\ seed = None
    /\ output_file = NoPath
    /\ image = NoImage
    /\ calls = <<>>
    /\ hf_error = NoText
    /\ hf_report = "none"
    /\ openai_error = NoText
    /\ outcome = "pending"
    /\ raised = NoError
    /\ disk = EmptyDisk
    /\ outside = InitialOutside
    /\ del = [d \in Deleters |-> IdleDeleter]
    /\ probe = NoProbe
    /\ gen \in [Generators -> {NewGenerator(text, fmt) :
                                  text \in PairPrompts, fmt \in Formats}]

PairNext ==
    \/ \E g \in Generators : GenBegin(g)
    \/ \E g \in Generators : GenProvide(g)
    \/ \E g \in Generators : GenSave(g)
    \/ \E g \in Generators : GenMeta(g)
    \/ Tick

SpecPair == PairInit /\ [][PairNext]_vars

----------------------------------------------------------------------------
(* Vocabulary of the claims *)

CallsTo(provider) == {i \in DOMAIN calls : calls[i].provider = provider}
PrimaryCalls == Cardinality(CallsTo("huggingface"))
SecondaryCalls == Cardinality(CallsTo("openai"))
Providers == [i \in DOMAIN calls |-> calls[i].provider]

PrimaryFailed == hf_error # NoText
SecondaryFailed == openai_error # NoText
Finished == pc = "done"

\* the categories of the specification's classifier, on the primary's error text
QuotaOrPayment(msg) == IsQuotaError(msg)
RateLimited(msg) == Contains(msg, <<"4","2","9">>) /\ ~IsQuotaError(msg)
Fatal(msg) == ~QuotaOrPayment(msg) /\ ~RateLimited(msg)

\* the text of the error the call ended with carries msg
Carries(err, msg) == Contains(err.detail, msg)

SidecarPath == with_suffix(output_file, Json)
ImageWritten == Exists(disk, output_file) /\ disk[output_file].kind = "image"
SidecarWritten == Exists(disk, SidecarPath) /\ disk[SidecarPath].kind = "json"

----------------------------------------------------------------------------
(* C1..C10: the fallback procedure *)

\* C1: a call without consent to fallback (allow_fallback = FALSE) whose primary
\* attempt fails with a quota/payment error never invokes the secondary
\* provider, and it ends in failure.
C1_NoFallbackWithoutConsent ==
    (~allow_fallback /\ PrimaryFailed /\ QuotaOrPayment(hf_error))
        => /\ SecondaryCalls = 0
           /\ Finished => outcome = "raised"

\* C2: with consent to fallback and OPENAI_API_KEY set, a quota/payment failure
\* of the primary attempt is followed by exactly one secondary attempt: never
\* more than one while the call runs, and exactly one, made after the primary
\* call, once the call has ended.
C2_ExactlyOneSecondaryAttempt ==
    (allow_fallback /\ openai_key /\ PrimaryFailed /\ QuotaOrPayment(hf_error))
        => /\ SecondaryCalls <= 1
           /\ Finished => Providers = <<"huggingface", "openai">>

C2_Witness ==
    /\ allow_fallback /\ openai_key /\ Finished
    /\ hf_error = Msg402
    /\ SecondaryCalls = 1

\* C3: a primary failure classified RATE_LIMITED (HTTP 429) never leads to a
\* secondary attempt, whatever allow_fallback is, and the call ends in failure.
C3_RateLimitNeverFallsBack ==
    (PrimaryFailed /\ RateLimited(hf_error))
        => /\ SecondaryCalls = 0
           /\ Finished => outcome = "raised"

\* C4: a primary failure that is neither quota/payment nor rate limiting (401,
\* a timeout, any other text) never leads to a secondary attempt, even with
\* consent and a key.
C4_OnlyQuotaTriggersFallback ==
    (PrimaryFailed /\ Fatal(hf_error)) => SecondaryCalls = 0

\* C5: when the model selector is 'dall-e-3' the primary provider is never
\* called, with or without HF_TOKEN: every provider call of the call is to the
\* secondary, and there is at most one.
C5_DallESkipsPrimary ==
    model = DallE3
        => /\ PrimaryCalls = 0
           /\ Len(calls) <= 1

C5_Witness ==
    /\ model = DallE3 /\ hf_token /\ entry = "direct"
    /\ Providers = <<"openai">>

\* C6: the seed is fixed before any provider attempt (the caller's value, or
\* one draw), every provider call and the sidecar carry that value, whichever
\* provider served the request, and once fixed it never changes.
C6_SeedState ==
    /\ calls # <<>> => seed # None
    /\ (seed # None /\ seed_arg # None) => seed = seed_arg
    /\ \A i \in CallsTo("huggingface") : calls[i].seed = seed
    /\ SidecarWritten => disk[SidecarPath].metadata.seed = seed

C6_SeedFixedOnce == []C6_SeedState /\ [][seed # None => seed' = seed]_vars

C6_Witness ==
    /\ seed_arg = None /\ seed # None
    /\ PrimaryFailed /\ Finished /\ outcome = "returned"
    /\ disk[SidecarPath].metadata.service = "openai"
    /\ disk[SidecarPath].metadata.seed = seed

\* C7: when the primary attempt fails and the secondary is attempted and fails
\* too, the call raises one error that carries the primary's error and the
\* secondary's error.
C7_ConsolidatedErrorCarriesBoth ==
    (Finished /\ PrimaryFailed /\ SecondaryFailed)
        => /\ outcome = "raised"
           /\ Carries(raised, hf_error)
           /\ Carries(raised, openai_error)

\* C8: when the primary attempt fails and OPENAI_API_KEY is not set, the call
\* fails without a secondary call and the error it raises is the primary's.
C8_NoSecondaryReportsPrimaryError ==
    (Finished /\ PrimaryFailed /\ ~openai_key)
        => /\ SecondaryCalls = 0
           /\ outcome = "raised"
           /\ Carries(raised, hf_error)

\* C9: without OPENAI_API_KEY, a call of generate_image with HF_TOKEN set and a
\* primary model whose primary try block does not raise ends in success, with
\* the image and the sidecar on disk.
C9_MissingKeyOnlyDisablesFallback ==
    (Finished /\ entry = "direct" /\ hf_token /\ model # DallE3 /\ ~openai_key
       /\ ~PrimaryFailed)
        => /\ outcome = "returned"
           /\ PrimaryCalls = 1
           /\ ImageWritten
           /\ SidecarWritten

C9_Witness ==
    /\ Finished /\ entry = "direct" /\ hf_token /\ model # DallE3 /\ ~openai_key
    /\ outcome = "returned"
    /\ disk[SidecarPath].metadata.service = "huggingface"

\* C10: when HF_TOKEN is not set and a primary model is requested, no provider
\* is called, neither primary nor secondary, and the call fails.
C10_MissingTokenFailsBeforeAnyCall ==
    (entry = "direct" /\ ~hf_token /\ model # DallE3)
        => /\ calls = <<>>
           /\ Finished => outcome = "raised"

----------------------------------------------------------------------------
(* C11..C14: delete *)

\* where the operating system ends up when it follows output/<filename>
Target(filename) == Located(JoinPath(<<OutputDir>>, filename))

\* the filename leads out of the storage directory
EscapesStorage(filename) ==
    LET at == Target(filename)
    IN  ~(Len(at) >= 2 /\ at[1] = WorkDir /\ at[2] = OutputDir)

Moved(d) == del'[d] # del[d]
ImageThere(d) == PathExists(disk, outside, JoinPath(<<OutputDir>>, del[d].filename))
SidecarThere(d) ==
    PathExists(disk, outside, path_with_suffix(JoinPath(<<OutputDir>>, del[d].filename), Json))
Answered(d) == del[d].pc = "done"

\* C11: a delete whose filename resolves outside the storage directory is
\* answered 'Invalid file path', and none of its steps changes a file: the
\* storage and the files outside of it are the same before and after.
C11_EscapeState ==
    /\ outside = InitialOutside
    /\ \A d \in Deleters :
          EscapesStorage(del[d].filename)
              => /\ del[d].pc \in {"guard", "done"}
                 /\ Answered(d) => del[d].response = InvalidPath

C11_EscapeStep ==
    \A d \in Deleters :
        (EscapesStorage(del[d].filename) /\ Moved(d))
            => /\ disk' = disk
               /\ outside' = outside
               /\ del'[d].response = InvalidPath

C11_TraversalRejected == []C11_EscapeState /\ [][C11_EscapeStep]_vars

C11_Witness ==
    \E d \in Deleters :
        /\ del[d].filename = <<DotDot, SecretName>>
        /\ del[d].response = InvalidPath
        /\ <<WorkDir, SecretName>> \in outside

\* C12: a delete that finds no image under its filename answers
\* 'Image file not found' (404, success = false) and removes nothing; every
\* answered delete has one of the four answers of the handler, so no exception
\* leaves it.
C12_AnswerState ==
    \A d \in Deleters :
        Answered(d) => del[d].response.status \in {200, 400, 404, 500}

C12_MissingStep ==
    \A d \in Deleters :
        (del[d].pc = "exists" /\ ~ImageThere(d) /\ Moved(d))
            => /\ del'[d].pc = "done"
               /\ del'[d].response = NotFound
               /\ ~del'[d].response.success
               /\ disk' = disk
               /\ outside' = outside

C12_MissingIsNotFound == []C12_AnswerState /\ [][C12_MissingStep]_vars

C12_Witness ==
    \E d \in Deleters :
        /\ del[d].filename = <<MissingName>>
        /\ del[d].response = NotFound
        /\ disk \in InitialStorages

\* C13: of two delete requests for the same image file that interleave, one
\* answers success and the other 'not found', never another error, and
\* afterwards neither the image nor its sidecar exists.
C13_ConcurrentDeleteIdempotent ==
    \A d, e \in Deleters :
        (d # e /\ del[d].filename = del[e].filename
           /\ ~EscapesStorage(del[d].filename)
           /\ Target(del[d].filename) \notin Directories
           /\ Answered(d) /\ Answered(e) /\ del[d].response = Deleted)
            => /\ del[e].response = NotFound
               /\ ~ImageThere(d)
               /\ ~SidecarThere(d)

\* C14: with no other request in flight, a delete of an existing image file
\* of the storage removes the image first and then the sidecar, if there is
\* one, and answers success; it answers 'not found' only when the image is not
\* there, never fails, and once it has answered success neither the image nor
\* the sidecar of that name exists.
C14_DeleteState ==
    \A d \in Deleters :
        /\ del[d].pc \in {"json_exists", "unlink_json"} => ~ImageThere(d)
        /\ (Answered(d) /\ del[d].response = Deleted)
              => ~ImageThere(d) /\ ~SidecarThere(d)
        /\ (Answered(d) /\ del[d].response.status = 500)
              => Target(del[d].filename) \in Directories

C14_DeleteStep ==
    \A d \in Deleters :
        /\ (del[d].pc = "exists" /\ ImageThere(d) /\ Moved(d))
              => del'[d].pc = "unlink_image"
        /\ (del[d].pc = "json_exists" /\ ~SidecarThere(d) /\ Moved(d))
              => del'[d].response = Deleted

C14_DeleteRemovesPair == []C14_DeleteState /\ [][C14_DeleteStep]_vars

C14_Witness ==
    \E d \in Deleters :
        /\ del[d].filename = <<StoredImageName>>
        /\ del[d].response = Deleted
        /\ disk = OtherPair

----------------------------------------------------------------------------
(* C15, C16: image and sidecar as a pair *)

Images(d) == {p \in DOMAIN d : d[p].kind = "image"}
Sidecars(d) == {p \in DOMAIN d : d[p].kind = "json"}

\* every image has its sidecar and every sidecar the image it names
Paired(d) ==
    /\ \A p \in Images(d) : with_suffix(p, Json) \in Sidecars(d)
    /\ \A j \in Sidecars(d) : d[j].metadata.filename \in Images(d)

\* nothing is in flight: every call and request has ended or was killed
Settled ==
    /\ pc \in {"idle", "done", "crashed"}
    /\ \A d \in Deleters : del[d].pc \in {"idle", "done", "crashed"}

\* C15: image and sidecar are created together and destroyed together: after
\* any interleaving of generate and delete steps, and after a crash at any
\* step, an image file exists if and only if its sidecar exists.
C15_ImageIffSidecar == Settled => Paired(disk)

\* no delete request has removed a file yet
NothingUnlinked ==
    \A d \in Deleters :
        \/ del[d].pc \in {"idle", "guard", "exists", "unlink_image"}
        \/ del[d].response.status \in {400, 404, 500}

\* C16: persist writes the image before the sidecar: unless a delete removed
\* it, the image of the call is on disk whenever its sidecar is about to be or
\* has been written, a call that returned left both files, and the gallery
\* lists, in every state of the storage, only entries whose sidecar and image
\* both exist.
C16_GalleryListsOnlyPairs ==
    /\ (NothingUnlinked /\ (pc \in {"hf_meta", "openai_meta"} \/ SidecarWritten))
          => ImageWritten
    /\ (NothingUnlinked /\ outcome = "returned")
          => ImageWritten /\ SidecarWritten
    /\ \A item \in get_gallery_items(disk) :
          /\ item.json \in Sidecars(disk)
          /\ item.filename \in Images(disk)
          /\ item.filename = disk[item.json].metadata.filename

\* a crash after the image write: the orphan is on disk and is not listed
C16_Witness ==
    /\ pc = "crashed"
    /\ ImageWritten /\ ~Exists(disk, SidecarPath)
    /\ \A item \in get_gallery_items(disk) : item.filename # output_file
    /\ get_gallery_items(disk) # {}

----------------------------------------------------------------------------
(* C17: the status probe *)

Probed == probe.reply.status # "none"

\* the texts that mean quota, payment or throttling
MeansLimit(msg) ==
    \/ Contains(msg, <<"4","0","2">>)
    \/ Contains(msg, <<"P","a","y","m","e","n","t"," ","R","e","q","u","i","r","e","d">>)
    \/ Contains(Lower(msg), <<"e","x","c","e","e","d","e","d">>)
    \/ Contains(msg, <<"4","2","9">>)

\* C17: the probe answers 'available' when the provider call succeeds,
\* 'limit' when the failure is a quota/payment or rate-limit failure, and
\* 'error' with the message cut to the limit for every other failure; the
\* answer is always one of the three.
C17_ProbeStatus ==
    Probed
        => /\ probe.reply.status \in {"available", "limit", "error"}
           /\ probe.reply.status = "available" <=> probe.outcome.ok
           /\ probe.reply.status = "limit"
                 <=> (~probe.outcome.ok /\ MeansLimit(probe.outcome.error))
           /\ probe.reply.status = "error"
                 => /\ Len(probe.reply.message) <= StatusMessageLimit
                    /\ probe.reply.message =
                          SubSeq(probe.outcome.error, 1, Len(probe.reply.message))
                    /\ \/ probe.reply.message = probe.outcome.error
                       \/ Len(probe.reply.message) = StatusMessageLimit

C17_Witness ==
    /\ probe.outcome = ProbeFailure(Msg401 \o MsgTimeout)
    /\ probe.reply.status = "error"
    /\ Len(probe.reply.message) < Len(probe.outcome.error)

----------------------------------------------------------------------------
(* C18..C20: what a generate call stores and which requests it accepts *)

\* the fixed size the specification prescribes for a request
NearestSupportedSize ==
    IF width = height THEN <<1024, 1024>>
    ELSE IF width > height THEN <<1792, 1024>>
    ELSE <<1024, 1792>>

ServedBy(service) ==
    SidecarWritten /\ disk[SidecarPath].metadata.service = service

\* C18: when the secondary provider serves a request it is asked for the
\* square size when width = height, the wide size when width > height and the
\* tall size when width < height; the stored image has exactly the requested
\* width and height, and the sidecar records the substituted size as
\* original_size together with the service name of the secondary.
C18_SecondarySizeMapping ==
    ServedBy("openai")
        => /\ calls[Len(calls)].provider = "openai"
           /\ calls[Len(calls)].size = NearestSupportedSize
           /\ ImageWritten
           /\ disk[output_file].size = <<width, height>>
           /\ disk[SidecarPath].metadata.original_size = NearestSupportedSize
           /\ disk[SidecarPath].metadata.width = width
           /\ disk[SidecarPath].metadata.height = height

C18_Witness ==
    /\ ServedBy("openai") /\ Finished /\ outcome = "returned"
    /\ hf_error = Msg402
    /\ width = 1344 /\ height = 768
    /\ calls[2].size = <<1792, 1024>>
    /\ disk[output_file].size = <<1344, 768>>

RequiredFields ==
    {"prompt", "width", "height", "format", "num_inference_steps", "seed",
     "model", "service", "timestamp", "filename"}

\* C19: every sidecar a successful generate writes, whichever provider served
\* it, has all of prompt, width, height, format, num_inference_steps, seed,
\* model, service, timestamp and filename.
C19_SidecarHasAllFields ==
    (Finished /\ outcome = "returned" /\ SidecarWritten)
        => RequiredFields \subseteq DOMAIN disk[SidecarPath].metadata

\* C20: a request whose prompt is empty after trimming is rejected locally on
\* every entry path: no provider is called and nothing is written.
C20_EmptyPromptRejected ==
    Strip(prompt, Whitespace) = <<>>
        => /\ calls = <<>>
           /\ disk = EmptyDisk

----------------------------------------------------------------------------
(* C21, C22: what a generate call does with a bad request and a failed write *)

\* C21: a request whose width or height is not positive is rejected before
\* any provider attempt: no provider is called and nothing is written.
C21_NonPositiveDimensionsRejected ==
    (width <= 0 \/ height <= 0) => (calls = <<>> /\ disk = EmptyDisk)

\* the primary try block raised while writing the image or the sidecar,
\* after the primary provider had returned an image
PrimaryWriteFailed == hf_error = MsgDiskFull

\* C22: a write failure after a provider returned an image makes the call
\* fail; it never leads to an attempt with the secondary provider.
C22_WriteFailureSurfaced ==
    PrimaryWriteFailed
        => /\ SecondaryCalls = 0
           /\ Finished => outcome = "raised"

----------------------------------------------------------------------------
(* C23, C27: generate calls of several processes on one storage *)

\* C23: two generate calls running at the same time never write to the same
\* file name, also when they have the same prompt and format and start in
\* the same second.
C23_ConcurrentCallsWriteDistinctFiles ==
    \A g, h \in Generators :
        g # h => gen[g].written \cap gen[h].written = {}

\* C27: a sidecar that has been written is never changed by a later generate
\* call: every step leaves each sidecar of the storage with its content.
C27_RecordNeverMutated ==
    [][\A p \in Sidecars(disk) :
          p \in DOMAIN disk' => disk'[p] = disk[p]]_vars

----------------------------------------------------------------------------
(* C24, C25: exceptions and provider calls of one generate call *)

ConsolidatedTexts ==
    {"Both HuggingFace and OpenAI failed. No OPENAI_API_KEY found in .env file.",
     "Both HuggingFace and OpenAI failed. OpenAI error: "}

\* C24: no provider exception leaves generate_image as it is: a call that
\* has ended either returned or raised the one ValueError the function builds
\* itself, and an exception of the primary provider never ends the call.
C24_NoRawProviderException ==
    entry = "direct"
        => /\ (PrimaryFailed /\ ~Finished) => (outcome = "pending" /\ raised = NoError)
           /\ Finished
                 => \/ outcome = "returned" /\ raised = NoError
                    \/ /\ outcome = "raised"
                       /\ raised.type = "ValueError"
                       /\ raised.text \in ConsolidatedTexts

C24_Witness ==
    /\ Finished
    /\ PrimaryFailed /\ hf_error = Msg401
    /\ SecondaryFailed /\ openai_error = MsgBilling
    /\ outcome = "raised"

\* C25: within one call each provider is called at most once, so there are
\* at most two provider calls, and when a primary model is selected no call
\* to the secondary provider comes before a call to the primary one.
C25_AtMostOneCallEach ==
    /\ PrimaryCalls <= 1
    /\ SecondaryCalls <= 1
    /\ Len(calls) <= 2
    /\ model # DallE3
          => \A i, j \in DOMAIN calls :
                (i < j /\ calls[i].provider = "openai")
                    => calls[j].provider # "huggingface"

C25_Witness ==
    /\ Finished
    /\ Len(calls) = 2
    /\ calls[1].provider = "huggingface"
    /\ calls[2].provider = "openai"

----------------------------------------------------------------------------
(* C26, C28: the classification of a primary error, and a failed call *)

FellBack == pc \in {"fallback", "openai_save", "openai_meta"} \/ SecondaryCalls > 0

\* C26: every error text of the primary provider gets exactly one category,
\* and a text that matches no quota, payment or rate-limit pattern is
\* classified as fatal and leads to no fallback.
C26_UnknownErrorIsFatal ==
    PrimaryFailed
        => /\ hf_report \in {"quota", "error"}
           /\ hf_report = "quota" <=> QuotaOrPayment(hf_error)
           /\ Fatal(hf_error) => (hf_report = "error" /\ ~FellBack)

\* C28: a call that ends in failure leaves the storage as it was before the
\* call: no image and no sidecar of that call is on disk.
C28_FailedCallLeavesNoFile ==
    (Finished /\ outcome = "raised") => disk = EmptyDisk

----------------------------------------------------------------------------
(* C29: what a delete request removes *)

\* the files a delete request names: the image and the sidecar beside it
NamedFiles(filename) ==
    LET at == Target(filename)
    IN  IF Len(at) = 3 THEN {at[3], with_suffix(at[3], Json)} ELSE {}

----------------------------------------------------------------------------
(* C30: how a generate call ends *)

\* the call returned: image and sidecar are on disk, both written by the
\* branch of the provider that was called last
Succeeded ==
    /\ outcome = "returned"
    /\ raised = NoError
    /\ ImageWritten
    /\ calls # <<>>
    /\ ServedBy(calls[Len(calls)].provider)

\* the call raised; for the web entry the handler shows what was raised
Failed ==
    /\ outcome = IF entry = "direct" THEN "raised" ELSE "shown_error"
    /\ raised # NoError

\* C30: every generate call terminates, and it ends in exactly one of two
\* ways: it returned with image and sidecar written by the serving provider's
\* branch, or it raised a failure.
C30_TerminatesInSuccessOrFailure ==
    /\ <>Finished
    /\ [](Finished => (Succeeded \/ Failed) /\ ~(Succeeded /\ Failed))

C30_Witness ==
    /\ Finished
    /\ Succeeded
    /\ PrimaryWriteFailed
    /\ ServedBy("openai")

====
